---------------------------- MODULE Spec2Model ----------------------------
(***************************************************************************)
(* Model of hypha_apps_cli/__main__.py: the credential cache               *)
(* (is_token_expired, get_token_expiration_info, save_token_to_file,       *)
(* load_token_from_file, connect) and the file packager                    *)
(* (infer_format_and_content, collect_files).                              *)
(*                                                                         *)
(* Strings are sequences of one-character strings, so that split, strip,   *)
(* base64 decoding and JSON parsing are computed character by character.   *)
(***************************************************************************)
EXTENDS Integers, Sequences, FiniteSets, TLC

(***************************************************************************)
(* Bounds of the model.                                                    *)
(***************************************************************************)
MaxTime == 3      \* the wall clock runs over 0..MaxTime
MaxFaults == 2    \* filesystem calls that may fail in one behaviour
MaxDays == 2      \* whole days in the durations rendered

(***************************************************************************)
(* Characters.                                                             *)
(***************************************************************************)
B64Chars == <<"A","B","C","D","E","F","G","H","I","J","K","L","M","N","O","P","Q","R","S","T","U","V","W","X","Y","Z","a","b","c","d","e","f","g","h","i","j","k","l","m","n","o","p","q","r","s","t","u","v","w","x","y","z","0","1","2","3","4","5","6","7","8","9","+","/">>

Printable == <<" ","!","\"","#","$","%","&","'","(",")","*","+",",","-",".","/","0","1","2","3","4","5","6","7","8","9",":",";","<","=",">","?","@","A","B","C","D","E","F","G","H","I","J","K","L","M","N","O","P","Q","R","S","T","U","V","W","X","Y","Z","[","\\","]","^","_","<bq>","a","b","c","d","e","f","g","h","i","j","k","l","m","n","o","p","q","r","s","t","u","v","w","x","y","z","{","|","}","~">>

Whitespace == {" ", "\n", "\t", "\r"}

Digits == <<"0","1","2","3","4","5","6","7","8","9">>

IsDigit(c) == \E i \in 1..Len(Digits) : Digits[i] = c

DigitVal(c) == (CHOOSE i \in 1..Len(Digits) : Digits[i] = c) - 1

IsB64(c) == \E i \in 1..Len(B64Chars) : B64Chars[i] = c

B64Val(c) == (CHOOSE i \in 1..Len(B64Chars) : B64Chars[i] = c) - 1

\* chr() of a decoded byte; bytes below 0x20 and 0x7f are control characters
Chr(b) == IF b >= 32 /\ b <= 126 THEN Printable[b - 31] ELSE "<ctl>"

(***************************************************************************)
(* str.split('.') and str.strip()                                          *)
(***************************************************************************)
RECURSIVE SplitFrom(_, _, _)
SplitFrom(s, i, cur) ==
    IF i > Len(s) THEN <<cur>>
    ELSE IF s[i] = "." THEN <<cur>> \o SplitFrom(s, i + 1, <<>>)
    ELSE SplitFrom(s, i + 1, Append(cur, s[i]))

Split(s) == SplitFrom(s, 1, <<>>)

RECURSIVE LStrip(_)
LStrip(s) == IF s # <<>> /\ Head(s) \in Whitespace THEN LStrip(Tail(s)) ELSE s

RECURSIVE RStrip(_)
RStrip(s) ==
    IF s # <<>> /\ s[Len(s)] \in Whitespace
    THEN RStrip(SubSeq(s, 1, Len(s) - 1)) ELSE s

Strip(s) == RStrip(LStrip(s))

(***************************************************************************)
(* base64.b64decode(payload_b64): the non-strict decoder.  Characters      *)
(* outside the standard alphabet are discarded; a pad that completes a     *)
(* quad ends the input; leftover characters are an error.                  *)
(***************************************************************************)
Pad(n) == [k \in 1..n |-> "="]

RECURSIVE A2B(_, _, _, _, _, _)
A2B(s, i, quad, left, pads, out) ==
    IF i > Len(s)
    THEN IF quad # 0 THEN [ok |-> FALSE, bytes |-> <<>>]
                     ELSE [ok |-> TRUE, bytes |-> out]
    ELSE IF s[i] = "="
    THEN IF quad >= 2 /\ quad + pads + 1 >= 4
         THEN [ok |-> TRUE, bytes |-> out]
         ELSE A2B(s, i + 1, quad, left, IF quad >= 2 THEN pads + 1 ELSE pads, out)
    ELSE IF ~IsB64(s[i])
    THEN A2B(s, i + 1, quad, left, pads, out)
    ELSE LET v == B64Val(s[i]) IN
         CASE quad = 0 -> A2B(s, i + 1, 1, v, 0, out)
           [] quad = 1 -> A2B(s, i + 1, 2, v % 16, 0,
                              Append(out, left * 4 + (v \div 16)))
           [] quad = 2 -> A2B(s, i + 1, 3, v % 4, 0,
                              Append(out, left * 16 + (v \div 4)))
           [] OTHER    -> A2B(s, i + 1, 0, 0, 0, Append(out, left * 64 + v))

b64decode(s) == A2B(s, 1, 0, 0, 0, <<>>)

\* bytes.decode('utf-8') for the byte strings of the model: ASCII decodes,
\* a byte of 0x80 or above is an invalid start or continuation byte
Utf8Decode(bytes) ==
    IF \A k \in 1..Len(bytes) : bytes[k] < 128
    THEN [ok |-> TRUE, text |-> [k \in 1..Len(bytes) |-> Chr(bytes[k])]]
    ELSE [ok |-> FALSE, text |-> <<>>]

(***************************************************************************)
(* json.loads, for documents without whitespace: a scalar (integer,        *)
(* string without escapes, null) or an object whose values are scalars.    *)
(* A parse result is [ok, val, next]; values are records tagged by t.      *)
(***************************************************************************)
JNull == [t |-> "null"]
JInt(n) == [t |-> "int", n |-> n]
JStr(s) == [t |-> "str", s |-> s]
JDict(d) == [t |-> "dict", d |-> d]
JFail == [ok |-> FALSE, val |-> JNull, next |-> 0]
JOk(v, i) == [ok |-> TRUE, val |-> v, next |-> i]

RECURSIVE ScanDigits(_, _, _)
ScanDigits(s, i, acc) ==
    IF i <= Len(s) /\ IsDigit(s[i])
    THEN ScanDigits(s, i + 1, acc * 10 + DigitVal(s[i]))
    ELSE JOk(JInt(acc), i)

ParseNat(s, i) ==
    IF i > Len(s) \/ ~IsDigit(s[i]) THEN JFail
    ELSE IF s[i] = "0" THEN JOk(JInt(0), i + 1)
    ELSE ScanDigits(s, i, 0)

ParseInt(s, i) ==
    IF i <= Len(s) /\ s[i] = "-"
    THEN LET r == ParseNat(s, i + 1) IN
         IF r.ok THEN JOk(JInt(0 - r.val.n), r.next) ELSE JFail
    ELSE ParseNat(s, i)

RECURSIVE ScanString(_, _, _)
ScanString(s, i, acc) ==
    IF i > Len(s) THEN JFail
    ELSE IF s[i] = "\"" THEN JOk(JStr(acc), i + 1)
    ELSE IF s[i] = "\\" \/ s[i] = "<ctl>" THEN JFail
    ELSE ScanString(s, i + 1, Append(acc, s[i]))

ParseString(s, i) ==
    IF i <= Len(s) /\ s[i] = "\"" THEN ScanString(s, i + 1, <<>>) ELSE JFail

ParseScalar(s, i) ==
    IF i > Len(s) THEN JFail
    ELSE IF s[i] = "\"" THEN ParseString(s, i)
    ELSE IF s[i] = "n"
    THEN IF i + 3 <= Len(s) /\ SubSeq(s, i, i + 3) = <<"n","u","l","l">>
         THEN JOk(JNull, i + 4) ELSE JFail
    ELSE ParseInt(s, i)

\* members of an object after "{" or ","; a repeated key keeps the last value
RECURSIVE ParseMembers(_, _, _)
ParseMembers(s, i, acc) ==
    LET k == ParseString(s, i) IN
    IF ~k.ok \/ k.next > Len(s) \/ s[k.next] # ":" THEN JFail
    ELSE LET v == ParseScalar(s, k.next + 1) IN
         IF ~v.ok \/ v.next > Len(s) THEN JFail
         ELSE LET d == [x \in DOMAIN acc \cup {k.val.s} |->
                            IF x = k.val.s THEN v.val ELSE acc[x]] IN
              IF s[v.next] = "}" THEN JOk(JDict(d), v.next + 1)
              ELSE IF s[v.next] = "," THEN ParseMembers(s, v.next + 1, d)
              ELSE JFail

EmptyDict == [x \in {} |-> JNull]

ParseValue(s, i) ==
    IF i > Len(s) THEN JFail
    ELSE IF s[i] = "{"
    THEN IF i + 1 <= Len(s) /\ s[i + 1] = "}" THEN JOk(JDict(EmptyDict), i + 2)
         ELSE ParseMembers(s, i + 1, EmptyDict)
    ELSE ParseScalar(s, i)

\* json.loads(text): one value and nothing after it
json_loads(text) ==
    LET r == ParseValue(text, 1) IN
    IF r.ok /\ r.next = Len(text) + 1 THEN [ok |-> TRUE, val |-> r.val]
    ELSE [ok |-> FALSE, val |-> JNull]

(***************************************************************************)
(* format_time_remaining(seconds).  The rendered text is kept as its       *)
(* parts: "EXPIRED", or a primary amount and unit with an optional         *)
(* secondary amount and unit (sunit = "" when there is none).              *)
(***************************************************************************)
Rendered(text, n1, u1, n2, u2) ==
    [text |-> text, primary |-> n1, punit |-> u1, secondary |-> n2, sunit |-> u2]

\* the mutant of format_time_remaining that names the seconds left over
\* after whole minutes even when there are none
format_time_remaining_always(seconds) ==
    IF seconds <= 0 THEN Rendered("EXPIRED", 0, "", 0, "")
    ELSE IF seconds < 60 THEN Rendered("", seconds, "seconds", 0, "")
    ELSE IF seconds < 3600
    THEN Rendered("", seconds \div 60, "minutes", seconds % 60, "seconds")
    ELSE IF seconds < 86400
    THEN LET hours == seconds \div 3600
             remaining_minutes == (seconds % 3600) \div 60 IN
         IF remaining_minutes = 0 THEN Rendered("", hours, "hours", 0, "")
         ELSE Rendered("", hours, "hours", remaining_minutes, "minutes")
    ELSE LET days == seconds \div 86400
             remaining_hours == (seconds % 86400) \div 3600 IN
         IF remaining_hours = 0 THEN Rendered("", days, "days", 0, "")
         ELSE Rendered("", days, "days", remaining_hours, "hours")

format_time_remaining(seconds) ==
    IF seconds <= 0 THEN Rendered("EXPIRED", 0, "", 0, "")
    ELSE IF seconds < 60 THEN Rendered("", seconds, "seconds", 0, "")
    ELSE IF seconds < 3600
    THEN LET minutes == seconds \div 60
             remaining_seconds == seconds % 60 IN
         IF remaining_seconds = 0 THEN Rendered("", minutes, "minutes", 0, "")
         ELSE Rendered("", minutes, "minutes", remaining_seconds, "seconds")
    ELSE IF seconds < 86400
    THEN LET hours == seconds \div 3600
             remaining_minutes == (seconds % 3600) \div 60 IN
         IF remaining_minutes = 0 THEN Rendered("", hours, "hours", 0, "")
         ELSE Rendered("", hours, "hours", remaining_minutes, "minutes")
    ELSE LET days == seconds \div 86400
             remaining_hours == (seconds % 86400) \div 3600 IN
         IF remaining_hours = 0 THEN Rendered("", days, "days", 0, "")
         ELSE Rendered("", days, "days", remaining_hours, "hours")

(***************************************************************************)
(* The decoding shared by is_token_expired and get_token_expiration_info:  *)
(* pad the second segment, base64-decode it, decode UTF-8, parse JSON and  *)
(* read 'exp'.  err names the exception raised, "" when none is.           *)
(***************************************************************************)
ExpKey == <<"e","x","p">>

payload_get_exp(parts) ==
    LET payload_b64 == parts[2] \o Pad(4 - (Len(parts[2]) % 4))
        payload_bytes == b64decode(payload_b64)
        text == Utf8Decode(payload_bytes.bytes)
        payload == json_loads(text.text) IN
    IF ~payload_bytes.ok THEN [err |-> "binascii.Error", exp |-> JNull]
    ELSE IF ~text.ok THEN [err |-> "UnicodeDecodeError", exp |-> JNull]
    ELSE IF ~payload.ok THEN [err |-> "JSONDecodeError", exp |-> JNull]
    ELSE IF payload.val.t # "dict" THEN [err |-> "AttributeError", exp |-> JNull]
    ELSE IF ExpKey \in DOMAIN payload.val.d
    THEN [err |-> "", exp |-> payload.val.d[ExpKey]]
    ELSE [err |-> "", exp |-> JNull]

\* is_token_expired with "current_time > exp" for "current_time >= exp"
is_token_expired_late(token, current_time) ==
    LET parts == Split(token) IN
    IF Len(parts) # 3 THEN TRUE
    ELSE LET p == payload_get_exp(parts) IN
         IF p.err # "" THEN TRUE
         ELSE IF p.exp.t = "null" THEN TRUE
         ELSE IF p.exp.t # "int" THEN TRUE
         ELSE current_time > p.exp.n

\* is_token_expired with "return False" where exp is None or not a number
is_token_expired_noexp(token, current_time) ==
    LET parts == Split(token) IN
    IF Len(parts) # 3 THEN TRUE
    ELSE LET p == payload_get_exp(parts) IN
         IF p.err # "" THEN TRUE
         ELSE IF p.exp.t # "int" THEN FALSE
         ELSE current_time >= p.exp.n

\* is_token_expired(token) when int(time.time()) = current_time
is_token_expired(token, current_time) ==
    LET parts == Split(token) IN
    IF Len(parts) # 3 THEN TRUE
    ELSE LET p == payload_get_exp(parts) IN
         IF p.err # "" THEN TRUE
         ELSE IF p.exp.t = "null" THEN TRUE
         ELSE IF p.exp.t # "int" THEN TRUE      \* TypeError in >=
         ELSE current_time >= p.exp.n

\* get_token_expiration_info(token) when int(time.time()) = current_time
Invalid(error) == [valid |-> FALSE, error |-> error]

get_token_expiration_info(token, current_time) ==
    LET parts == Split(token) IN
    IF Len(parts) # 3 THEN Invalid("Invalid JWT format")
    ELSE LET p == payload_get_exp(parts) IN
         IF p.err # "" THEN Invalid(p.err)
         ELSE IF p.exp.t = "null" THEN Invalid("No expiration time in token")
         ELSE IF p.exp.t # "int" THEN Invalid("TypeError")   \* exp - current_time
         ELSE LET expires_in_seconds == p.exp.n - current_time IN
              [valid |-> TRUE,
               exp_timestamp |-> p.exp.n,
               current_timestamp |-> current_time,
               expires_in_seconds |-> expires_in_seconds,
               is_expired |-> expires_in_seconds <= 0,
               expires_in_human |-> format_time_remaining(expires_in_seconds)]

(***************************************************************************)
(* Token strings given to the program.  issued is TRUE for a token as a    *)
(* server issues it: three base64url segments without padding, the second  *)
(* the JSON payload; exp is the integer expiry its payload carries         *)
(* (hasExp says whether it carries one).                                   *)
(***************************************************************************)
Tok(s, issued, hasExp, exp) ==
    [s |-> s, issued |-> issued, hasExp |-> hasExp, exp |-> exp]

\* h.eyJleHAiOjF9.s  payload {"exp":1}
tok_exp1 == <<"h",".","e","y","J","l","e","H","A","i","O","j","F","9",".","s">>
\* h.eyJleHAiOjJ9.s  payload {"exp":2}
tok_exp2 == <<"h",".","e","y","J","l","e","H","A","i","O","j","J","9",".","s">>
\* h.eyI_IjoxLCJleHAiOjJ9.s  payload {"?":1,"exp":2}
tok_url2 == <<"h",".","e","y","I","_","I","j","o","x","L","C","J","l","e","H","A","i","O","j","J","9",".","s">>
\* h.e30.s  payload {}
tok_noexp == <<"h",".","e","3","0",".","s">>
\* h.Nw.s  payload 7
tok_nondict == <<"h",".","N","w",".","s">>
\* h.eyJleHAiOm51bGx9.s  payload {"exp":null}
tok_null == <<"h",".","e","y","J","l","e","H","A","i","O","m","5","1","b","G","x","9",".","s">>
\* h.ew.s  payload {
tok_badjson == <<"h",".","e","w",".","s">>
\* h.e.s  a second segment of one character
tok_badb64 == <<"h",".","e",".","s">>
\* h.s
tok_two == <<"h",".","s">>
\* h.eyJleHAiOjJ9.s.x
tok_four == <<"h",".","e","y","J","l","e","H","A","i","O","j","J","9",".","s",".","x">>
\* h.eyJleHAiOiIyIn0.s  payload {"exp":"2"}
tok_strexp == <<"h",".","e","y","J","l","e","H","A","i","O","i","I","y","I","n","0",".","s">>
\* tok_exp2 followed by a newline
tok_nl2 == <<"h",".","e","y","J","l","e","H","A","i","O","j","J","9",".","s","\n">>

Tokens ==
    { Tok(tok_exp1, TRUE, TRUE, 1), Tok(tok_exp2, TRUE, TRUE, 2),
      Tok(tok_url2, TRUE, TRUE, 2), Tok(tok_noexp, TRUE, FALSE, 0),
      Tok(tok_nondict, FALSE, FALSE, 0), Tok(tok_null, FALSE, FALSE, 0),
      Tok(tok_badjson, FALSE, FALSE, 0), Tok(tok_badb64, FALSE, FALSE, 0),
      Tok(tok_two, FALSE, FALSE, 0), Tok(tok_four, FALSE, FALSE, 0),
      Tok(tok_strexp, FALSE, FALSE, 0),
      Tok(tok_nl2, FALSE, TRUE, 2), Tok(<<>>, FALSE, FALSE, 0) }

TokenStrings == { t.s : t \in Tokens }

TokenOf(s) == CHOOSE t \in Tokens : t.s = s

\* what the token string s is at time t, whatever the program decides:
\* without an integer expiry, or with one that has passed
Untrusted(s) == s \notin TokenStrings \/ ~TokenOf(s).hasExp
PastExpiry(s, t) == ~Untrusted(s) /\ t >= TokenOf(s).exp

\* the tokens saved to the cache and the values of HYPHA_TOKEN
SavedTokens == {tok_exp2, tok_url2, tok_noexp, tok_nl2}
Overrides == {<<>>, tok_exp2, tok_two}

(***************************************************************************)
(* Optional values: None or a string                                       *)
(***************************************************************************)
None == [none |-> TRUE, s |-> <<>>]
Some(s) == [none |-> FALSE, s |-> s]
\* Python's "not token" for None or a string
Falsy(v) == v.none \/ v.s = <<>>

(***************************************************************************)
(* The file tree the packager runs in.  A path is a sequence of names; the *)
(* working directory is /p.  A file holds bytes.                           *)
(***************************************************************************)

Cwd == <<<<"p">>>>

Dir(path) == [path |-> path, kind |-> "dir", bytes |-> <<>>]
File(path, bytes) == [path |-> path, kind |-> "file", bytes |-> bytes]

\* the entries in the order a listing names them when order = 1
Entries == <<
    Dir(<<>>),
    Dir(<<<<"o">>>>),
    File(<<<<"o">>, <<"x",".","t","x","t">>>>, <<120>>),
    Dir(<<<<"p">>>>),
    Dir(<<<<"p">>, <<"b","a","d">>>>),
    File(<<<<"p">>, <<"b","a","d">>, <<"b","a","d",".","j","s","o","n">>>>, <<123>>),
    File(<<<<"p">>, <<"b","a","d">>, <<"l","a","t","i","n",".","t","x","t">>>>, <<233>>),
    Dir(<<<<"p">>, <<"d","o","c","s">>>>),
    File(<<<<"p">>, <<"d","o","c","s">>, <<"a",".","j","s","o","n">>>>, <<123,34,107,34,58,49,125>>),
    File(<<<<"p">>, <<"d","o","c","s">>, <<"c",".","b","i","n">>>>, <<0,255>>),
    File(<<<<"p">>, <<"d","o","c","s">>, <<"r","e","a","d","m","e",".","t","x","t">>>>, <<104,105>>),
    Dir(<<<<"p">>, <<"d","o","c","s">>, <<"s","u","b">>>>),
    File(<<<<"p">>, <<"d","o","c","s">>, <<"s","u","b">>, <<"b",".","t","x","t">>>>, <<98>>),
    File(<<<<"p">>, <<"m","a","i","n",".","p","y">>>>, <<120>>) >>

Missing == [path |-> <<>>, kind |-> "none", bytes |-> <<>>]

Node(path) ==
    IF \E i \in 1..Len(Entries) : Entries[i].path = path
    THEN Entries[CHOOSE i \in 1..Len(Entries) : Entries[i].path = path]
    ELSE Missing

\* the arguments given to collect_files
PathInputs == {
    <<"d","o","c","s","/","r","e","a","d","m","e",".","t","x","t">>,   \* docs/readme.txt
    <<"/","p","/","d","o","c","s","/","r","e","a","d","m","e",".","t","x","t">>,   \* /p/docs/readme.txt
    <<"d","o","c","s","/","s","u","b","/",".",".","/","r","e","a","d","m","e",".","t","x","t">>,   \* docs/sub/../readme.txt
    <<"/","o","/","x",".","t","x","t">>,   \* /o/x.txt
    <<"/","p","/","d","o","c","s","/",".",".","/","m","a","i","n",".","p","y">>,   \* /p/docs/../main.py
    <<"d","o","c","s">>,   \* docs
    <<"d","o","c","s","/","s","u","b">>,   \* docs/sub
    <<"b","a","d">>,   \* bad
    <<"b","a","d","/","b","a","d",".","j","s","o","n">>,   \* bad/bad.json
    <<"b","a","d","/","l","a","t","i","n",".","t","x","t">>,   \* bad/latin.txt
    <<"n","o","t","h","i","n","g">>,   \* nothing
    <<"d","o","c","s","/","*",".","t","x","t">>,   \* docs/*.txt
    <<"d","o","c","s","/","[","a","r","]","*">>,   \* docs/[ar]*
    <<"d","o","c","s","/","[","!","a","]","*">>,   \* docs/[!a]*
    <<"d","o","c","s","/","?",".","j","s","o","n">>,   \* docs/?.json
    <<"d","o","c","s","/","*","*">>,   \* docs/**
    <<"d","o","c","s","/","*","*",".","t","x","t">>,   \* docs/**.txt
    <<"d","o","c","s","/","*","*",".","m","d">>,   \* docs/**.md
    <<"d","o","c","s","/","n","o","t","h","i","n","g","*">>   \* docs/nothing*
    }

Anchors == {None} \cup {Some(a) : a \in {
    <<"d","o","c","s">>,   \* docs
    <<"/","p","/","d","o","c","s">>,   \* /p/docs
    <<"/","p">>,   \* /p
    <<".">>,   \* .
    <<"m","a","i","n",".","p","y">>,   \* main.py
    <<"/","o">>   \* /o
    }}

(***************************************************************************)
(* pathlib on a POSIX host.  A Path is [abs, parts]: whether it starts at  *)
(* the root, and its components ("" and "." components are dropped when    *)
(* the string is parsed, ".." components are kept).                        *)
(***************************************************************************)
RECURSIVE SplitSep(_, _, _, _)
SplitSep(s, sep, i, cur) ==
    IF i > Len(s) THEN <<cur>>
    ELSE IF s[i] = sep THEN <<cur>> \o SplitSep(s, sep, i + 1, <<>>)
    ELSE SplitSep(s, sep, i + 1, Append(cur, s[i]))

RECURSIVE KeepParts(_)
KeepParts(names) ==
    IF names = <<>> THEN <<>>
    ELSE IF Head(names) = <<>> \/ Head(names) = <<".">>
    THEN KeepParts(Tail(names))
    ELSE <<Head(names)>> \o KeepParts(Tail(names))

\* Path(s)
Path(s) ==
    [abs |-> s # <<>> /\ s[1] = "/",
     parts |-> KeepParts(SplitSep(s, "/", 1, <<>>))]

RECURSIVE JoinParts(_)
JoinParts(parts) ==
    IF parts = <<>> THEN <<>>
    ELSE IF Len(parts) = 1 THEN Head(parts)
    ELSE Head(parts) \o <<"/">> \o JoinParts(Tail(parts))

\* str(path)
Str(path) ==
    IF path.abs THEN <<"/">> \o JoinParts(path.parts)
    ELSE IF path.parts = <<>> THEN <<".">>
    ELSE JoinParts(path.parts)

\* path.name
Name(path) ==
    IF path.parts = <<>> THEN <<>> ELSE path.parts[Len(path.parts)]

\* path.parent
Parent(path) ==
    IF path.parts = <<>> THEN path
    ELSE [path EXCEPT !.parts = SubSeq(path.parts, 1, Len(path.parts) - 1)]

\* the absolute path that following parts from cur names, ".." taken
\* lexically (the tree has no symbolic links)
RECURSIVE Normal(_, _)
Normal(cur, parts) ==
    IF parts = <<>> THEN cur
    ELSE IF Head(parts) = <<".", ".">>
    THEN Normal(IF cur = <<>> THEN cur ELSE SubSeq(cur, 1, Len(cur) - 1),
                Tail(parts))
    ELSE Normal(Append(cur, Head(parts)), Tail(parts))

\* path.resolve()
Resolve(path) ==
    [abs |-> TRUE,
     parts |-> Normal(IF path.abs THEN <<>> ELSE Cwd, path.parts)]

\* the entry the system finds for path: every component but the last is
\* looked up in a directory that exists
RECURSIVE Walk(_, _)
Walk(cur, parts) ==
    IF Node(cur).kind = "none" THEN Missing
    ELSE IF parts = <<>> THEN Node(cur)
    ELSE IF Node(cur).kind # "dir" THEN Missing
    ELSE IF Head(parts) = <<".", ".">>
    THEN Walk(IF cur = <<>> THEN cur ELSE SubSeq(cur, 1, Len(cur) - 1),
              Tail(parts))
    ELSE Walk(Append(cur, Head(parts)), Tail(parts))

Stat(path) == Walk(IF path.abs THEN <<>> ELSE Cwd, path.parts)

\* path.is_file(), path.is_dir()
is_file(path) == Stat(path).kind = "file"
is_dir(path) == Stat(path).kind = "dir"

IsPrefix(a, b) == Len(a) <= Len(b) /\ SubSeq(b, 1, Len(a)) = a

\* path.relative_to(other): a comparison of the two paths as written;
\* ValueError when other is not a leading part of path
relative_to(path, other) ==
    IF path.abs = other.abs /\ IsPrefix(other.parts, path.parts)
    THEN [raised |-> "",
          path |-> [abs |-> FALSE,
                    parts |-> SubSeq(path.parts, Len(other.parts) + 1,
                                     Len(path.parts))]]
    ELSE [raised |-> "ValueError", path |-> [abs |-> FALSE, parts |-> <<>>]]

\* s.replace("\\", "/")
RECURSIVE ReplaceBackslash(_)
ReplaceBackslash(s) ==
    IF s = <<>> THEN <<>>
    ELSE <<IF Head(s) = "\\" THEN "/" ELSE Head(s)>> \o ReplaceBackslash(Tail(s))

(***************************************************************************)
(* fnmatch on a name, as pathlib's glob applies it: "*" any run of         *)
(* characters, "?" one character, "[seq]" one character of seq, "[!seq]"   *)
(* one character not of seq; a "[" without a closing "]" is itself.        *)
(* (Patterns with a "-" range in a class are outside the model.)           *)
(***************************************************************************)
RECURSIVE FindFrom(_, _, _)
FindFrom(s, j, c) ==
    IF j > Len(s) THEN 0
    ELSE IF s[j] = c THEN j
    ELSE FindFrom(s, j + 1, c)

\* the index of the "]" closing the class whose first character is at i
ClassClose(pat, i) ==
    LET j1 == IF i <= Len(pat) /\ pat[i] = "!" THEN i + 1 ELSE i
        j2 == IF j1 <= Len(pat) /\ pat[j1] = "]" THEN j1 + 1 ELSE j1
    IN FindFrom(pat, j2, "]")

InClass(stuff, c) ==
    IF stuff[1] = "!"
    THEN ~(\E k \in 2..Len(stuff) : stuff[k] = c)
    ELSE \E k \in 1..Len(stuff) : stuff[k] = c

RECURSIVE MatchAt(_, _, _, _)
MatchAt(pat, i, name, k) ==
    IF i > Len(pat) THEN k > Len(name)
    ELSE IF pat[i] = "*"
    THEN \E m \in k..(Len(name) + 1) : MatchAt(pat, i + 1, name, m)
    ELSE IF pat[i] = "?"
    THEN k <= Len(name) /\ MatchAt(pat, i + 1, name, k + 1)
    ELSE IF pat[i] = "[" /\ ClassClose(pat, i + 1) # 0
    THEN LET j == ClassClose(pat, i + 1) IN
         /\ k <= Len(name)
         /\ InClass(SubSeq(pat, i + 1, j - 1), name[k])
         /\ MatchAt(pat, j + 1, name, k + 1)
    ELSE k <= Len(name) /\ name[k] = pat[i] /\ MatchAt(pat, i + 1, name, k + 1)

fnmatch(name, pat) == MatchAt(pat, 1, name, 1)

(***************************************************************************)
(* Directory listings, glob and rglob                                      *)
(***************************************************************************)
Reverse(s) == [k \in 1..Len(s) |-> s[Len(s) + 1 - k]]

RECURSIVE ChildrenIn(_, _)
ChildrenIn(entries, dir) ==
    IF entries = <<>> THEN <<>>
    ELSE LET p == Head(entries).path IN
         (IF p # <<>> /\ SubSeq(p, 1, Len(p) - 1) = dir THEN <<p>> ELSE <<>>)
         \o ChildrenIn(Tail(entries), dir)

\* os.scandir(dir): the paths of the entries of dir, in the listing's order
scandir(dir, ord) ==
    ChildrenIn(IF ord = 1 THEN Entries ELSE Reverse(Entries), dir)

RECURSIVE SelectMatching(_, _)
SelectMatching(paths, pat) ==
    IF paths = <<>> THEN <<>>
    ELSE (IF fnmatch(Head(paths)[Len(Head(paths))], pat)
          THEN <<Head(paths)>> ELSE <<>>)
         \o SelectMatching(Tail(paths), pat)

\* the directories at and below dir, each before the ones it holds
RECURSIVE Directories(_, _)
RECURSIVE DirectoriesOf(_, _)
Directories(dir, ord) == <<dir>> \o DirectoriesOf(scandir(dir, ord), ord)
DirectoriesOf(paths, ord) ==
    IF paths = <<>> THEN <<>>
    ELSE (IF Node(Head(paths)).kind = "dir"
          THEN Directories(Head(paths), ord) ELSE <<>>)
         \o DirectoriesOf(Tail(paths), ord)

RECURSIVE ListAll(_, _)
ListAll(dirs, ord) ==
    IF dirs = <<>> THEN <<>>
    ELSE scandir(Head(dirs), ord) \o ListAll(Tail(dirs), ord)

AbsPaths(seq) == [k \in 1..Len(seq) |-> [abs |-> TRUE, parts |-> seq[k]]]

HasStarStar(pat) ==
    \E k \in 1..(Len(pat) - 1) : pat[k] = "*" /\ pat[k + 1] = "*"

\* list(base_dir.glob(pattern)) for a pattern of one component
glob(base_dir, pattern, ord) ==
    IF pattern = <<"*", "*">>
    THEN [raised |-> "",
          paths |-> IF is_dir(base_dir)
                    THEN AbsPaths(Directories(base_dir.parts, ord)) ELSE <<>>]
    ELSE IF HasStarStar(pattern)
    THEN [raised |-> "ValueError", paths |-> <<>>]
    ELSE [raised |-> "",
          paths |-> IF is_dir(base_dir)
                    THEN AbsPaths(SelectMatching(scandir(base_dir.parts, ord),
                                                 pattern))
                    ELSE <<>>]

\* list(base_dir.rglob("*"))
rglob(base_dir, ord) ==
    IF is_dir(base_dir)
    THEN AbsPaths(ListAll(Directories(base_dir.parts, ord), ord))
    ELSE <<>>

(***************************************************************************)
(* mimetypes.guess_type(filepath), by the extension of the name            *)
(***************************************************************************)
RECURSIVE LastDot(_, _)
LastDot(name, i) ==
    IF i < 1 THEN 0
    ELSE IF name[i] = "." THEN i
    ELSE LastDot(name, i - 1)

\* posixpath.splitext(name)[1]; a name that only starts with its one dot
\* has no extension
Ext(name) ==
    LET i == LastDot(name, Len(name)) IN
    IF i <= 1 THEN <<>> ELSE SubSeq(name, i, Len(name))

guess_type(filepath) ==
    LET ext == Ext(Name(filepath)) IN
    CASE ext = <<".","j","s","o","n">> -> [type |-> "application", subtype |-> "json"]
      [] ext = <<".","t","x","t">>  -> [type |-> "text", subtype |-> "plain"]
      [] ext = <<".","p","y">>   -> [type |-> "text", subtype |-> "x-python"]
      [] ext = <<".","b","i","n">>  -> [type |-> "application", subtype |-> "octet-stream"]
      [] OTHER          -> [type |-> "", subtype |-> ""]

(***************************************************************************)
(* base64.b64encode(data).decode("utf-8")                                  *)
(***************************************************************************)
RECURSIVE b64encode(_)
b64encode(b) ==
    IF b = <<>> THEN <<>>
    ELSE IF Len(b) = 1
    THEN <<B64Chars[(b[1] \div 4) + 1], B64Chars[(b[1] % 4) * 16 + 1],
           "=", "=">>
    ELSE IF Len(b) = 2
    THEN <<B64Chars[(b[1] \div 4) + 1],
           B64Chars[(b[1] % 4) * 16 + (b[2] \div 16) + 1],
           B64Chars[(b[2] % 16) * 4 + 1], "=">>
    ELSE <<B64Chars[(b[1] \div 4) + 1],
           B64Chars[(b[1] % 4) * 16 + (b[2] \div 16) + 1],
           B64Chars[(b[2] % 16) * 4 + (b[3] \div 64) + 1],
           B64Chars[(b[3] % 64) + 1]>>
         \o b64encode(SubSeq(b, 4, Len(b)))

(***************************************************************************)
(* infer_format_and_content(filepath).  The result is [raised, data]:      *)
(* raised names the exception that leaves the function ("" when none       *)
(* does), data is the dictionary returned.  content is a JSON value for    *)
(* format json and a string otherwise.                                     *)
(***************************************************************************)
FileData(name, format, text, val) ==
    [name |-> name, format |-> format,
     content |-> [text |-> text, val |-> val]]

NoData == FileData(<<>>, "", <<>>, JNull)

Raise(e) == [raised |-> e, data |-> NoData]

infer_format_and_content(filepath) ==
    LET mime == guess_type(filepath)
        f == Stat(filepath)
        text == Utf8Decode(f.bytes)
    IN
    IF f.kind = "none" THEN Raise("FileNotFoundError")
    ELSE IF f.kind = "dir" THEN Raise("IsADirectoryError")
    ELSE IF mime.type = "application" /\ mime.subtype = "json"
    THEN IF ~text.ok THEN Raise("UnicodeDecodeError")
         ELSE IF ~json_loads(text.text).ok THEN Raise("JSONDecodeError")
         ELSE [raised |-> "",
               data |-> FileData(Str(filepath), "json", <<>>,
                                 json_loads(text.text).val)]
    ELSE IF mime.type = "text"
    THEN IF ~text.ok THEN Raise("UnicodeDecodeError")
         ELSE [raised |-> "",
               data |-> FileData(Str(filepath), "text", text.text, JNull)]
    ELSE [raised |-> "",
          data |-> FileData(Str(filepath), "base64", b64encode(f.bytes),
                            JNull)]

(***************************************************************************)
(* collect_files(path_input, source_path).  The result is [raised, files]. *)
(***************************************************************************)
Returned(files) == [raised |-> "", files |-> files]
Raised(e) == [raised |-> e, files |-> <<>>]

\* source_root, None when no source_path is given
SourceRoot(source_path) ==
    IF ~Falsy(source_path)
    THEN LET resolved == Resolve(Path(source_path.s)) IN
         [none |-> FALSE,
          path |-> IF is_file(resolved) THEN Parent(resolved) ELSE resolved]
    ELSE [none |-> TRUE, path |-> [abs |-> FALSE, parts |-> <<>>]]

Named(data, rel_path) ==
    [data EXCEPT !.name = ReplaceBackslash(Str(rel_path))]

\* the branch for a single file
SingleFile(path_input, source_root) ==
    LET file_data == infer_format_and_content(path_input)
        rel == relative_to(path_input, source_root.path)
    IN
    IF file_data.raised # "" THEN Raised(file_data.raised)
    ELSE IF ~source_root.none
    THEN IF rel.raised # "" THEN Raised(rel.raised)
         ELSE Returned(<<Named(file_data.data, rel.path)>>)
    ELSE Returned(<<[file_data.data EXCEPT
                         !.name = ReplaceBackslash(Name(path_input))]>>)

\* the loop over matching_paths
RECURSIVE Collect(_, _, _, _)
Collect(matching_paths, base_dir, source_root, files) ==
    IF matching_paths = <<>> THEN Returned(files)
    ELSE LET path == Head(matching_paths) IN
         IF ~is_file(path)
         THEN Collect(Tail(matching_paths), base_dir, source_root, files)
         ELSE LET file_data == infer_format_and_content(path)
                  rel == relative_to(path, IF ~source_root.none
                                           THEN source_root.path
                                           ELSE base_dir)
              IN
              IF file_data.raised # "" THEN Raised(file_data.raised)
              ELSE IF rel.raised # "" THEN Raised(rel.raised)
              ELSE Collect(Tail(matching_paths), base_dir, source_root,
                           Append(files, Named(file_data.data, rel.path)))

collect_files(input, source_path, ord) ==
    LET path_input == Path(input)
        source_root == SourceRoot(source_path)
        pattern == Name(path_input)
        globbed == glob(Resolve(Parent(path_input)), pattern, ord)
    IN
    IF is_file(path_input) THEN SingleFile(path_input, source_root)
    ELSE IF \E k \in 1..Len(pattern) : pattern[k] \in {"*", "?", "[", "]"}
    THEN IF globbed.raised # "" THEN Raised(globbed.raised)
         ELSE Collect(globbed.paths, Resolve(Parent(path_input)),
                      source_root, <<>>)
    ELSE Collect(rglob(Resolve(path_input), ord), Resolve(path_input),
                 source_root, <<>>)

\* a call of collect_files and what it gave
NoOut == [called |-> FALSE, path_input |-> <<>>, source_path |-> None,
          raised |-> "", files |-> <<>>]

(***************************************************************************)
(* State.                                                                  *)
(***************************************************************************)
VARIABLES
    now,      \* int(time.time())
    umask,    \* permission bits the process umask clears on creation
    slot,     \* the cache slot .hypha_token: [exists, content, mode]
    faults,   \* filesystem calls that have failed so far
    active,   \* the CLI invocations that run
    pc,       \* pc[p]: the statement invocation p is at
    loc,      \* loc[p]: the local variables of the call p is running
    fd,       \* fd[p]: the file p opened for writing is still the slot
    last,     \* last[p]: the call p completed most recently
    chk,      \* the latest call of a token function and its result
    order,    \* the order in which the directory listing returns entries
    out,      \* the latest call of collect_files and its result
    shown,    \* the latest call of format_time_remaining and its result
    server,   \* the ids of the sessions running on the server
    cmd       \* the app command the CLI runs, or ran last, and what it did

vars == <<now, umask, slot, faults, active, pc, loc, fd, last, chk, order, out, shown, server, cmd>>
cacheVars == <<umask, slot, faults, active, pc, loc, fd, last>>
packVars == <<order, out>>
cliVars == <<shown, server>>

Procs == {1, 2}

OwnerRW == {"ur", "uw"}                                \* 0o600
AllRW == {"ur", "uw", "gr", "gw", "or", "ow"}          \* 0o666, open()'s mode
Umasks == { {"gw", "ow"}, {"gr", "gw", "or", "ow"} }   \* 022 and 077

NoSlot == [exists |-> FALSE, content |-> <<>>, mode |-> {}]

\* what the call before did: a save and whether it wrote, a load and whether
\* the content it read was untrusted or past its expiry
NoAfter == [op |-> "none", arg |-> <<>>, flag |-> FALSE]

\* what a call has done so far
Obs0 == [after |-> NoAfter, consulted |-> FALSE, read |-> FALSE,
         stale |-> FALSE, wrote |-> FALSE, unlinked |-> FALSE]

\* the locals: arg is save's parameter, HYPHA_TOKEN and configured are the
\* environment of connect, token is the local of load and of connect, ret_to
\* is the caller of load
Loc0 == [arg |-> <<>>, HYPHA_TOKEN |-> <<>>, configured |-> FALSE,
         token |-> None, ret_to |-> "caller", obs |-> Obs0]

Call(op, status, a, r, o, existsAfter, net) ==
    [op |-> op, status |-> status, arg |-> a, ret |-> r, obs |-> o,
     existsAfter |-> existsAfter, net |-> net]

NoCall == Call("none", "ok", <<>>, None, Obs0, FALSE, 0)

\* the summary of the completed call c that the next call starts from
AfterOf(c) ==
    [op |-> c.op, arg |-> c.arg,
     flag |-> IF c.op = "save" THEN c.obs.wrote
              ELSE IF c.op = "load" THEN c.obs.read /\ c.obs.stale
              ELSE FALSE]

Begin(p) == [Obs0 EXCEPT !.after = AfterOf(last[p])]

\* the session ids the server gives out
Sessions == {"ws/s1", "ws/s2"}

\* an app command: api is the connection ("none" before connect returns),
\* running is what list_running returned, stops the session ids
\* controller.stop was called with, warned whether the "not currently
\* running" warning was printed, printed the session id start_app printed,
\* status how the handler ended ("" while it runs), before the session id
\* the start_app before this command printed
NoCmd == [op |-> "none", stage |-> "done", session_id |-> "", api |-> "none",
          listed |-> FALSE, running |-> {}, stops |-> <<>>, warned |-> FALSE,
          printed |-> "", status |-> "", before |-> ""]

\* a call of format_time_remaining and what it rendered
NoShown == [called |-> FALSE, seconds |-> 0,
            rendered |-> Rendered("", 0, "", 0, "")]

NoChk == [fn |-> "none", token |-> <<>>, at |-> 0, expired |-> FALSE,
          valid |-> FALSE, error |-> "", is_expired |-> FALSE,
          expires_in_seconds |-> 0]

InitCommon ==
    /\ now = 0
    /\ umask \in Umasks
    /\ slot = NoSlot
    /\ faults = 0
    /\ pc = [p \in Procs |-> "idle"]
    /\ loc = [p \in Procs |-> Loc0]
    /\ fd = [p \in Procs |-> FALSE]
    /\ last = [p \in Procs |-> NoCall]
    /\ chk = NoChk
    /\ out = NoOut
    /\ shown = NoShown
    /\ server = {}
    /\ cmd = NoCmd

\* one CLI invocation at a time
Init == InitCommon /\ active = {1} /\ order = 1

Tick ==
    /\ now < MaxTime
    /\ now' = now + 1
    /\ UNCHANGED <<cacheVars, chk, packVars, cliVars, cmd>>

\* a filesystem call may fail, MaxFaults times in a behaviour
Fault == faults < MaxFaults /\ faults' = faults + 1

\* p goes on to statement l with locals nl
Goto(p, l, nl) ==
    /\ pc' = [pc EXCEPT ![p] = l]
    /\ loc' = [loc EXCEPT ![p] = nl]
    /\ UNCHANGED last

\* the call of p returns (or raises) to the command line
Finish(p, c) ==
    /\ pc' = [pc EXCEPT ![p] = "idle"]
    /\ loc' = [loc EXCEPT ![p] = Loc0]
    /\ last' = [last EXCEPT ![p] = c]

(***************************************************************************)
(* save_token_to_file(token)                                               *)
(***************************************************************************)
save_token_to_file(p, t) ==
    /\ p \in active /\ pc[p] = "idle"
    /\ Goto(p, "save_open", [Loc0 EXCEPT !.arg = t, !.obs = Begin(p)])
    /\ UNCHANGED <<now, umask, slot, faults, active, fd, chk, packVars, cliVars, cmd>>

\* "except Exception as e: print(warning)": save returns normally
SaveWarned(p, existsAfter) ==
    Finish(p, Call("save", "warned", loc[p].arg, None, loc[p].obs,
                   existsAfter, 0))

\* the mode of a file that open(token_file, 'w') creates
CreateMode(mask) == AllRW \ mask

\* get_token_file_path() and open(token_file, 'w'): create or truncate
SaveOpen(p) ==
    /\ pc[p] = "save_open"
    /\ \/ /\ slot' = IF slot.exists THEN [slot EXCEPT !.content = <<>>]
                     ELSE [exists |-> TRUE, content |-> <<>>,
                           mode |-> CreateMode(umask)]
          /\ fd' = [fd EXCEPT ![p] = TRUE]
          /\ Goto(p, "save_write", loc[p])
          /\ UNCHANGED faults
       \/ /\ Fault
          /\ SaveWarned(p, slot.exists)
          /\ UNCHANGED <<slot, fd>>
    /\ UNCHANGED <<now, umask, active, chk, packVars, cliVars, cmd>>

\* f.write(token) and the close that flushes it: the bytes go to offset 0 of
\* the opened file
WriteAt0(old, t) ==
    IF Len(old) > Len(t) THEN t \o SubSeq(old, Len(t) + 1, Len(old)) ELSE t

SaveWrite(p) ==
    /\ pc[p] = "save_write"
    /\ \/ /\ slot' = IF fd[p]
                     THEN [slot EXCEPT !.content = WriteAt0(@, loc[p].arg)]
                     ELSE slot
          /\ Goto(p, "save_chmod", [loc[p] EXCEPT !.obs.wrote = TRUE])
          /\ UNCHANGED faults
       \/ /\ Fault
          /\ SaveWarned(p, slot.exists)
          /\ UNCHANGED slot
    /\ fd' = [fd EXCEPT ![p] = FALSE]
    /\ UNCHANGED <<now, umask, active, chk, packVars, cliVars, cmd>>

\* token_file.chmod(0o600)
SaveChmod(p) ==
    /\ pc[p] = "save_chmod"
    /\ \/ /\ slot.exists
          /\ slot' = [slot EXCEPT !.mode = OwnerRW]
          /\ Finish(p, Call("save", "ok", loc[p].arg, None, loc[p].obs, TRUE, 0))
          /\ UNCHANGED faults
       \/ /\ ~slot.exists          \* FileNotFoundError
          /\ SaveWarned(p, FALSE)
          /\ UNCHANGED <<slot, faults>>
       \/ /\ Fault
          /\ SaveWarned(p, slot.exists)
          /\ UNCHANGED slot
    /\ UNCHANGED <<now, umask, active, fd, chk, packVars, cliVars, cmd>>

(***************************************************************************)
(* load_token_from_file()                                                  *)
(***************************************************************************)
load_token_from_file(p) ==
    /\ p \in active /\ pc[p] = "idle"
    /\ Goto(p, "load_exists", [Loc0 EXCEPT !.obs = Begin(p)])
    /\ UNCHANGED <<now, umask, slot, faults, active, fd, chk, packVars, cliVars, cmd>>

\* load returns r (status "ok") or raises (status "raised"), to the command
\* line or into connect, where an exception ends connect as well
LoadReturn(p, r, status, o, existsAfter) ==
    IF loc[p].ret_to = "connect" /\ status # "raised"
    THEN Goto(p, "connect_check", [loc[p] EXCEPT !.token = r, !.obs = o])
    ELSE IF loc[p].ret_to = "connect"
    THEN Finish(p, Call("connect", status, loc[p].HYPHA_TOKEN, r, o,
                        existsAfter, 0))
    ELSE Finish(p, Call("load", status, <<>>, r, o, existsAfter, 0))

\* token_file = get_token_file_path(); if not token_file.exists(): return None
\* Both are outside the try block: an OSError of getcwd() or stat() is raised
LoadExists(p) ==
    /\ pc[p] = "load_exists"
    /\ LET o == [loc[p].obs EXCEPT !.consulted = TRUE] IN
       \/ /\ slot.exists
          /\ Goto(p, "load_read", [loc[p] EXCEPT !.obs = o])
          /\ UNCHANGED faults
       \/ /\ ~slot.exists
          /\ LoadReturn(p, None, "ok", o, FALSE)
          /\ UNCHANGED faults
       \/ /\ Fault
          /\ LoadReturn(p, None, "raised", o, slot.exists)
    /\ UNCHANGED <<now, umask, slot, active, fd, chk, packVars, cliVars, cmd>>

\* with open(token_file, 'r') as f: token = f.read().strip()
LoadRead(p) ==
    /\ pc[p] = "load_read"
    /\ \/ /\ slot.exists
          /\ Goto(p, "load_check",
                  [loc[p] EXCEPT !.token = Some(Strip(slot.content)),
                                 !.obs.read = TRUE])
          /\ UNCHANGED faults
       \/ /\ ~slot.exists          \* FileNotFoundError
          /\ Goto(p, "load_cleanup", loc[p])
          /\ UNCHANGED faults
       \/ /\ Fault
          /\ Goto(p, "load_cleanup", loc[p])
    /\ UNCHANGED <<now, umask, slot, active, fd, chk, packVars, cliVars, cmd>>

\* if is_token_expired(token): ... else: return token
LoadCheck(p) ==
    /\ pc[p] = "load_check"
    /\ LET t == loc[p].token.s
           o == [loc[p].obs EXCEPT !.stale = Untrusted(t) \/ PastExpiry(t, now)]
       IN IF is_token_expired(t, now)
          THEN Goto(p, "load_unlink", [loc[p] EXCEPT !.obs = o])
          ELSE LoadReturn(p, loc[p].token, "ok", o, slot.exists)
    /\ UNCHANGED <<now, umask, slot, faults, active, fd, chk, packVars, cliVars, cmd>>

\* token_file.unlink() removes the directory entry; a file still open for
\* writing is no longer the slot
Unlinked == [q \in Procs |-> FALSE]

\* token_file.unlink(); return None
LoadUnlink(p) ==
    /\ pc[p] = "load_unlink"
    /\ \/ /\ slot.exists
          /\ slot' = NoSlot
          /\ fd' = Unlinked
          /\ LoadReturn(p, None, "ok", [loc[p].obs EXCEPT !.unlinked = TRUE],
                        FALSE)
          /\ UNCHANGED faults
       \/ /\ ~slot.exists          \* FileNotFoundError
          /\ Goto(p, "load_cleanup", loc[p])
          /\ UNCHANGED <<slot, fd, faults>>
       \/ /\ Fault
          /\ Goto(p, "load_cleanup", loc[p])
          /\ UNCHANGED <<slot, fd>>
    /\ UNCHANGED <<now, umask, active, chk, packVars, cliVars, cmd>>

\* except Exception: try: token_file.unlink() except: pass; return None
LoadCleanup(p) ==
    /\ pc[p] = "load_cleanup"
    /\ \/ /\ slot.exists
          /\ slot' = NoSlot
          /\ fd' = Unlinked
          /\ LoadReturn(p, None, "ok", [loc[p].obs EXCEPT !.unlinked = TRUE],
                        FALSE)
          /\ UNCHANGED faults
       \/ /\ ~slot.exists
          /\ LoadReturn(p, None, "ok", loc[p].obs, FALSE)
          /\ UNCHANGED <<slot, fd, faults>>
       \/ /\ Fault
          /\ LoadReturn(p, None, "ok", loc[p].obs, slot.exists)
          /\ UNCHANGED <<slot, fd>>
    /\ UNCHANGED <<now, umask, active, chk, packVars, cliVars, cmd>>

(***************************************************************************)
(* connect(): the token resolution and the call of connect_to_server       *)
(***************************************************************************)
\* the cache consulted whatever HYPHA_TOKEN holds
UseCacheAlways(t) == TRUE

\* "if not token: token = load_token_from_file()"
UseCache(t) == Falsy(t)

\* the exit for a missing token left out
NoTokenFoundNever(t) == FALSE

\* "if not token: ... sys.exit(1)"
NoTokenFound(t) == Falsy(t)

\* token = os.getenv("HYPHA_TOKEN"), o being its value ("" when it is unset)
connect(p, o, configured) ==
    /\ p \in active /\ pc[p] = "idle"
    /\ Goto(p, IF UseCache(Some(o)) THEN "load_exists" ELSE "connect_check",
            [Loc0 EXCEPT !.HYPHA_TOKEN = o, !.configured = configured,
                         !.token = Some(o), !.ret_to = "connect",
                         !.obs = Begin(p)])
    /\ UNCHANGED <<now, umask, slot, faults, active, fd, chk, packVars, cliVars>>

\* the exits of connect and "return await connect_to_server({... token ...})"
ConnectCheck(p) ==
    /\ pc[p] = "connect_check"
    /\ IF NoTokenFound(loc[p].token) \/ ~loc[p].configured
       THEN Finish(p, Call("connect", "exit1", loc[p].HYPHA_TOKEN,
                           loc[p].token, loc[p].obs, slot.exists, 0))
       ELSE Finish(p, Call("connect", "connected", loc[p].HYPHA_TOKEN,
                           loc[p].token, loc[p].obs, slot.exists, 1))
    /\ UNCHANGED <<now, umask, slot, faults, active, fd, chk, packVars, cliVars, cmd>>

(***************************************************************************)
(* Calls of the two token functions on a token string                      *)
(***************************************************************************)
CallIsTokenExpired(t) ==
    /\ chk' = [NoChk EXCEPT !.fn = "is_token_expired", !.token = t, !.at = now,
                            !.expired = is_token_expired(t, now)]
    /\ UNCHANGED <<now, cacheVars, packVars, cliVars, cmd>>

\* the result record of get_token_expiration_info as chk keeps it
InfoChk(t, at, info) ==
    IF info.valid
    THEN [fn |-> "get_token_expiration_info", token |-> t,
          at |-> at, expired |-> FALSE, valid |-> TRUE,
          error |-> "", is_expired |-> info.is_expired,
          expires_in_seconds |-> info.expires_in_seconds]
    ELSE [fn |-> "get_token_expiration_info", token |-> t, at |-> at,
          expired |-> FALSE, valid |-> FALSE, error |-> info.error,
          is_expired |-> FALSE, expires_in_seconds |-> 0]

CallGetTokenExpirationInfo(t) ==
    /\ chk' = InfoChk(t, now, get_token_expiration_info(t, now))
    /\ UNCHANGED <<now, cacheVars, packVars, cliVars, cmd>>

(***************************************************************************)
(* Calls of format_time_remaining                                          *)
(***************************************************************************)
\* the durations rendered: below, at and above each unit's limits
Seconds ==
    { d * 86400 + h * 3600 + m * 60 + sec :
          d \in 0..MaxDays, h \in {0, 1, 23}, m \in {0, 1, 59},
          sec \in {0, 1, 59} }
    \cup {0 - 1, 0 - 86400, 125}

CallFormatTimeRemaining(seconds) ==
    /\ shown' = [called |-> TRUE, seconds |-> seconds,
                 rendered |-> format_time_remaining(seconds)]
    /\ UNCHANGED <<now, cacheVars, chk, packVars, server, cmd>>

(***************************************************************************)
(* start_app(app_id) and stop_app(session_id).  Each begins with           *)
(* "api = await connect()"; every await after it is a step.                *)
(***************************************************************************)
\* the session id printed by the command before, when it was a start_app
\* that returned
PrintedBefore ==
    IF cmd.op = "start_app" /\ cmd.status = "returned" THEN cmd.printed
    ELSE ""

Command(op, session_id) ==
    [NoCmd EXCEPT !.op = op, !.stage = "connect", !.session_id = session_id,
                  !.before = PrintedBefore]

stop_app(p, session_id, o, configured) ==
    /\ cmd.stage = "done"
    /\ connect(p, o, configured)
    /\ cmd' = Command("stop_app", session_id)

start_app(p, o, configured) ==
    /\ cmd.stage = "done"
    /\ connect(p, o, configured)
    /\ cmd' = Command("start_app", "")

\* connect() has returned the connection, or has ended the command with
\* sys.exit(1) or an exception; controller = await api.get_service(...)
Connected(p) ==
    /\ cmd.stage = "connect" /\ pc[p] = "idle"
    /\ cmd' = IF last[p].status = "connected"
              THEN [cmd EXCEPT !.api = "connected",
                               !.stage = IF cmd.op = "stop_app"
                                         THEN "list_running" ELSE "start"]
              ELSE [cmd EXCEPT !.stage = "done", !.status = last[p].status]
    /\ UNCHANGED <<now, cacheVars, chk, packVars, cliVars>>

\* started = await controller.start(app_id, ...); print(started.id): the
\* server starts a session under an id of its own, or start raises
StartStart ==
    /\ cmd.op = "start_app" /\ cmd.stage = "start"
    /\ \/ \E id \in Sessions \ server :
              /\ server' = server \cup {id}
              /\ cmd' = [cmd EXCEPT !.printed = id, !.stage = "disconnect"]
       \/ /\ cmd' = [cmd EXCEPT !.stage = "done", !.status = "raised"]
          /\ UNCHANGED server
    /\ UNCHANGED <<now, cacheVars, chk, packVars, shown>>

\* running = await controller.list_running()
StopListRunning ==
    /\ cmd.op = "stop_app" /\ cmd.stage = "list_running"
    /\ cmd' = [cmd EXCEPT !.running = server, !.listed = TRUE,
                          !.stage = "find"]
    /\ UNCHANGED <<now, cacheVars, chk, packVars, cliVars>>

\* the mutant of StopFind that goes on to controller.stop whether or not the
\* session was found
StopFindAlways ==
    /\ cmd.op = "stop_app" /\ cmd.stage = "find"
    /\ cmd' = [cmd EXCEPT !.stage = "stop"]
    /\ UNCHANGED <<now, cacheVars, chk, packVars, cliVars>>

\* found = next((a for a in running if a.id == session_id), None);
\* if not found: print(warning)
StopFind ==
    /\ cmd.op = "stop_app" /\ cmd.stage = "find"
    /\ cmd' = IF cmd.session_id \in cmd.running
              THEN [cmd EXCEPT !.stage = "stop"]
              ELSE [cmd EXCEPT !.warned = TRUE, !.stage = "disconnect"]
    /\ UNCHANGED <<now, cacheVars, chk, packVars, cliVars>>

\* await controller.stop(session_id): the server ends the session; for a
\* session that has ended since it was listed the call returns or raises
StopStop ==
    /\ cmd.op = "stop_app" /\ cmd.stage = "stop"
    /\ \/ /\ cmd.session_id \in server
          /\ server' = server \ {cmd.session_id}
          /\ cmd' = [cmd EXCEPT !.stops = Append(@, cmd.session_id),
                                !.stage = "disconnect"]
       \/ /\ cmd.session_id \notin server
          /\ cmd' = [cmd EXCEPT !.stops = Append(@, cmd.session_id),
                                !.stage = "disconnect"]
          /\ UNCHANGED server
       \/ /\ cmd.session_id \notin server
          /\ cmd' = [cmd EXCEPT !.stops = Append(@, cmd.session_id),
                                !.stage = "done", !.status = "raised"]
          /\ UNCHANGED server
    /\ UNCHANGED <<now, cacheVars, chk, packVars, shown>>

\* await api.disconnect() and the return of the handler
Disconnect ==
    /\ cmd.stage = "disconnect"
    /\ cmd' = [cmd EXCEPT !.api = "disconnected", !.stage = "done",
                          !.status = "returned"]
    /\ UNCHANGED <<now, cacheVars, chk, packVars, cliVars>>

\* a session ends on the server, stopped by another client
SessionEnds(id) ==
    /\ id \in server
    /\ server' = server \ {id}
    /\ UNCHANGED <<now, cacheVars, chk, packVars, shown, cmd>>

(***************************************************************************)
(* Calls of collect_files                                                  *)
(***************************************************************************)
CallCollectFiles(input, source_path) ==
    /\ out' = [called |-> TRUE, path_input |-> input,
               source_path |-> source_path,
               raised |-> collect_files(input, source_path, order).raised,
               files |-> collect_files(input, source_path, order).files]
    /\ UNCHANGED <<now, cacheVars, chk, order, cliVars, cmd>>

(***************************************************************************)
(* Specifications                                                          *)
(***************************************************************************)
\* the credential cache, one invocation at a time
Next ==
    \/ Tick
    \/ \E p \in Procs, t \in SavedTokens : save_token_to_file(p, t)
    \/ \E p \in Procs : SaveOpen(p)
    \/ \E p \in Procs : SaveWrite(p)
    \/ \E p \in Procs : SaveChmod(p)
    \/ \E p \in Procs : load_token_from_file(p)
    \/ \E p \in Procs : LoadExists(p)
    \/ \E p \in Procs : LoadRead(p)
    \/ \E p \in Procs : LoadCheck(p)
    \/ \E p \in Procs : LoadUnlink(p)
    \/ \E p \in Procs : LoadCleanup(p)
    \/ \E p \in Procs, o \in Overrides, c \in BOOLEAN :
           connect(p, o, c) /\ UNCHANGED cmd
    \/ \E p \in Procs : ConnectCheck(p)

Spec == Init /\ [][Next]_vars

\* the token functions applied to the token strings
NextFn ==
    \/ Tick
    \/ \E t \in TokenStrings : CallIsTokenExpired(t)
    \/ \E t \in TokenStrings : CallGetTokenExpirationInfo(t)

SpecFn == Init /\ [][NextFn]_vars

\* the packager applied to the paths and anchors, under either listing order
InitCollect == InitCommon /\ active = {} /\ order \in {1, 2}

NextCollect ==
    \E input \in PathInputs, source_path \in Anchors :
        CallCollectFiles(input, source_path)

SpecCollect == InitCollect /\ [][NextCollect]_vars

\* format_time_remaining applied to the durations
NextFormat == \E seconds \in Seconds : CallFormatTimeRemaining(seconds)

SpecFormat == Init /\ [][NextFormat]_vars

\* two CLI invocations on the same slot, their steps interleaved: one saves
\* tokens, the other loads
Saver == 1
Loader == 2

InitConc == InitCommon /\ active = Procs /\ order = 1

NextConc ==
    \/ Tick
    \/ save_token_to_file(Saver, tok_exp2)
    \/ SaveOpen(Saver)
    \/ SaveWrite(Saver)
    \/ SaveChmod(Saver)
    \/ load_token_from_file(Loader)
    \/ LoadExists(Loader)
    \/ LoadRead(Loader)
    \/ LoadCheck(Loader)
    \/ LoadUnlink(Loader)
    \/ LoadCleanup(Loader)

SpecConc == InitConc /\ [][NextConc]_vars

\* the app commands of one CLI invocation, HYPHA_TOKEN set or the token
\* taken from the slot, which holds a token saved by a login or nothing
InitApp ==
    /\ now = 0
    /\ umask \in Umasks
    /\ slot \in {NoSlot, [exists |-> TRUE, content |-> tok_exp2,
                          mode |-> OwnerRW]}
    /\ faults = 0
    /\ active = {1}
    /\ pc = [p \in Procs |-> "idle"]
    /\ loc = [p \in Procs |-> Loc0]
    /\ fd = [p \in Procs |-> FALSE]
    /\ last = [p \in Procs |-> NoCall]
    /\ chk = NoChk
    /\ order = 1
    /\ out = NoOut
    /\ shown = NoShown
    /\ server = {}
    /\ cmd = NoCmd

NextApp ==
    \/ Tick
    \/ \E id \in Sessions \cup {"ws/none"}, o \in {<<>>, tok_exp2},
          c \in BOOLEAN : stop_app(1, id, o, c)
    \/ \E o \in {<<>>, tok_exp2}, c \in BOOLEAN : start_app(1, o, c)
    \/ LoadExists(1)
    \/ LoadRead(1)
    \/ LoadCheck(1)
    \/ LoadUnlink(1)
    \/ LoadCleanup(1)
    \/ ConnectCheck(1)
    \/ Connected(1)
    \/ StartStart
    \/ StopListRunning
    \/ StopFind
    \/ StopStop
    \/ Disconnect
    \/ \E id \in Sessions : SessionEnds(id)

SpecApp == InitApp /\ [][NextApp]_vars

(***************************************************************************)
(* Properties                                                              *)
(***************************************************************************)
\* a token as a server issues it, with an integer expiry
IssuedWithExp(s) == s \in TokenStrings /\ TokenOf(s).issued /\ TokenOf(s).hasExp

\* C1: save_token_to_file(token) followed immediately by
\* load_token_from_file() returns exactly the token saved, for every issued
\* token whose exp is in the future at load time (no filesystem call failing)
C1_RoundTrip ==
    \A p \in Procs :
        ( /\ last[p].op = "load"
          /\ last[p].obs.after.op = "save"
          /\ faults = 0
          /\ IssuedWithExp(last[p].obs.after.arg)
          /\ now < TokenOf(last[p].obs.after.arg).exp )
        => last[p].ret = Some(last[p].obs.after.arg)

\* a completed load_token_from_file() that read untrusted or expired content
StaleLoad(c) == c.op = "load" /\ c.obs.read /\ c.obs.stale

\* C2 as stated: after load_token_from_file() on a slot holding an expired,
\* malformed or exp-less token it has returned None and the slot no longer
\* exists, and a subsequent load (no save in between) returns None as well
C2_Original ==
    \A p \in Procs :
        /\ StaleLoad(last[p])
           => last[p].status = "ok" /\ last[p].ret = None
              /\ ~last[p].existsAfter
        /\ (last[p].op = "load" /\ last[p].obs.after.op = "load"
            /\ last[p].obs.after.flag)
           => last[p].status = "ok" /\ last[p].ret = None

\* C2 amended: such a load returns None; the slot no longer exists exactly
\* when one of its two unlink attempts succeeded (a failed deletion is
\* swallowed and the slot stays); a subsequent load never returns a token:
\* it returns None or raises the error of its existence probe
C2_StaleLoadReturnsNone ==
    \A p \in Procs :
        /\ StaleLoad(last[p])
           => last[p].status = "ok" /\ last[p].ret = None
              /\ (last[p].existsAfter <=> ~last[p].obs.unlinked)
        /\ (last[p].op = "load" /\ last[p].obs.after.op = "load"
            /\ last[p].obs.after.flag)
           => last[p].ret = None /\ last[p].status \in {"ok", "raised"}

\* C2 witness: a load that follows a load that read a stale token and whose
\* deletion failed, so that it reads the stale slot again
C2_Witness ==
    \E p \in Procs :
        /\ StaleLoad(last[p]) /\ last[p].obs.unlinked
        /\ last[p].obs.after.op = "load" /\ last[p].obs.after.flag

\* C3: for an issued three-segment token with integer exp, is_token_expired
\* is false when exp > current time and true when exp <= current time
C3_ExpiryDecision ==
    (chk.fn = "is_token_expired" /\ IssuedWithExp(chk.token))
    => (chk.expired <=> chk.at >= TokenOf(chk.token).exp)

\* C4: a token that does not split into three segments, whose second segment
\* does not decode or parse, or whose payload has no exp is expired for
\* is_token_expired and valid = false with an error for
\* get_token_expiration_info
C4_UnparseableNeverValid ==
    Untrusted(chk.token) =>
        /\ chk.fn = "is_token_expired" => chk.expired
        /\ chk.fn = "get_token_expiration_info" => ~chk.valid /\ chk.error # ""

\* C4 witness: get_token_expiration_info called on a three-segment token
\* whose payload is not JSON
C4_Witness ==
    /\ chk.fn = "get_token_expiration_info"
    /\ chk.token = tok_badjson
    /\ chk.error = "JSONDecodeError"

\* C5: with a non-empty HYPHA_TOKEN, connect() goes to its checks with
\* exactly that string as the token, never enters load_token_from_file, does
\* nothing to the slot, and passes that string to connect_to_server
C5_OverrideBypassesCache ==
    \A p \in Procs :
        /\ (pc[p] # "idle" /\ loc[p].ret_to = "connect"
            /\ loc[p].HYPHA_TOKEN # <<>>)
           => /\ pc[p] = "connect_check"
              /\ loc[p].token = Some(loc[p].HYPHA_TOKEN)
              /\ loc[p].obs = [Obs0 EXCEPT !.after = loc[p].obs.after]
        /\ (last[p].op = "connect" /\ last[p].arg # <<>>)
           => /\ last[p].obs = [Obs0 EXCEPT !.after = last[p].obs.after]
              /\ last[p].status \in {"connected", "exit1"}
              /\ last[p].status = "connected" => last[p].ret = Some(last[p].arg)

\* C5 witness: connected with a malformed HYPHA_TOKEN while the slot holds an
\* expired token, which stays
C5_Witness ==
    \E p \in Procs :
        /\ last[p].op = "connect" /\ last[p].arg = tok_two
        /\ last[p].status = "connected"
        /\ slot.exists /\ PastExpiry(slot.content, now)

\* C6: connect() without HYPHA_TOKEN and without a token from the cache ends
\* with a non-zero exit and no call of connect_to_server; connect_to_server
\* is called only with a non-empty token
C6_NoTokenNoNetwork ==
    \A p \in Procs :
        last[p].op = "connect" =>
            /\ last[p].net = 1 <=> last[p].status = "connected"
            /\ last[p].net = 1 => ~Falsy(last[p].ret)
            /\ (last[p].arg = <<>> /\ Falsy(last[p].ret))
               => last[p].status \in {"exit1", "raised"} /\ last[p].net = 0

\* C6 witness: connect() without HYPHA_TOKEN found an expired token in the
\* slot and exited
C6_Witness ==
    \E p \in Procs :
        /\ last[p].op = "connect" /\ last[p].arg = <<>>
        /\ last[p].obs.read /\ last[p].obs.stale
        /\ last[p].status = "exit1" /\ last[p].net = 0

\* C7: whenever the slot exists and holds token content written by
\* save_token_to_file, its mode is owner read/write only
C7_OwnerOnly ==
    (slot.exists /\ slot.content # <<>>) => slot.mode = OwnerRW

\* C8: save_token_to_file and load_token_from_file never raise a filesystem
\* failure to their caller
C8_NoPropagation ==
    \A p \in Procs :
        last[p].op \in {"save", "load"} => last[p].status # "raised"

\* C9: no decode or parse failure leaves the classification logic: a call of
\* collect_files never raises what decoding a file as UTF-8 or parsing it as
\* JSON raises
C9_NoDecodeErrorPropagates ==
    out.called => out.raised \notin {"JSONDecodeError", "UnicodeDecodeError"}

\* a regular file whose content decodes as its extension says
Decodes(path) == is_file(path) /\ infer_format_and_content(path).raised = ""

\* C10: collect_files on a regular file yields exactly one entry; without an
\* anchor it is named by the file's base name, with an anchor whose root
\* holds the file it is named by the file's path relative to that root,
\* whether the path input is relative or absolute
C10_SingleFileNaming ==
    (out.called /\ Decodes(Path(out.path_input))) =>
        LET file == Resolve(Path(out.path_input))
            root == SourceRoot(out.source_path)
        IN
        IF root.none
        THEN /\ out.raised = "" /\ Len(out.files) = 1
             /\ out.files[1].name = Name(file)
        ELSE IsPrefix(root.path.parts, file.parts) =>
                 /\ out.raised = "" /\ Len(out.files) = 1
                 /\ out.files[1].name =
                        JoinParts(SubSeq(file.parts, Len(root.path.parts) + 1,
                                         Len(file.parts)))

\* the root the names of a call are declared relative to: the anchor root
\* when an anchor is given, otherwise the resolved base directory
DeclaredRoot(input, source_path) ==
    IF ~SourceRoot(source_path).none THEN SourceRoot(source_path).path
    ELSE IF is_file(Path(input))
            \/ \E k \in 1..Len(Name(Path(input))) :
                   Name(Path(input))[k] \in {"*", "?", "[", "]"}
    THEN Resolve(Parent(Path(input)))
    ELSE Resolve(Path(input))

\* C11: every entry collect_files returns has a name without a backslash
\* that is a relative path and names a location inside the declared root
C11_NamesInsideRoot ==
    out.called =>
        \A k \in 1..Len(out.files) :
            LET name == out.files[k].name
                root == DeclaredRoot(out.path_input, out.source_path)
            IN
            /\ \A i \in 1..Len(name) : name[i] # "\\"
            /\ name # <<>> /\ name[1] # "/"
            /\ IsPrefix(root.parts,
                        Normal(root.parts,
                               KeepParts(SplitSep(name, "/", 1, <<>>))))

\* the regular files at and below the directory dir
FilesBeneath(dir) ==
    { Entries[i].path : i \in { j \in 1..Len(Entries) :
                                   /\ Entries[j].kind = "file"
                                   /\ IsPrefix(dir, Entries[j].path) } }

\* the format the extension-inferred media type of a file calls for
FormatFor(mime) ==
    IF mime.type = "application" /\ mime.subtype = "json" THEN "json"
    ELSE IF mime.type = "text" THEN "text"
    ELSE "base64"

\* C12: collect_files on a directory (with no anchor, or an anchor whose
\* root holds the directory) returns exactly one entry per regular file
\* beneath it and none for a directory; the entry of a file has the format
\* json, text or base64 that the file's media type calls for
C12_DirectoryEntries ==
    LET dir == Resolve(Path(out.path_input))
        root == DeclaredRoot(out.path_input, out.source_path)
    IN
    (out.called /\ is_dir(Path(out.path_input))
       /\ IsPrefix(root.parts, dir.parts)) =>
        /\ out.raised = ""
        /\ Len(out.files) = Cardinality(FilesBeneath(dir.parts))
        /\ \A f \in FilesBeneath(dir.parts) :
               \E k \in 1..Len(out.files) :
                   /\ out.files[k].name =
                          JoinParts(SubSeq(f, Len(root.parts) + 1, Len(f)))
                   /\ out.files[k].format =
                          FormatFor(guess_type([abs |-> TRUE, parts |-> f]))

\* no entry of the directory the path input lies in matches its last
\* component
NoMatch(path_input) ==
    LET base_dir == Resolve(Parent(path_input))
        names == scandir(base_dir.parts, 1)
    IN
    is_dir(base_dir) =>
        \A k \in 1..Len(names) :
            ~fnmatch(names[k][Len(names[k])], Name(path_input))

\* C13: collect_files on a path input that is neither an existing regular
\* file nor an existing directory nor a pattern matching an entry returns
\* the empty sequence and does not raise, with or without an anchor
C13_NothingToCollect ==
    ( /\ out.called
      /\ ~is_file(Path(out.path_input))
      /\ ~is_dir(Path(out.path_input))
      /\ NoMatch(Path(out.path_input)) )
    => out.raised = "" /\ out.files = <<>>

\* the units of format_time_remaining, in seconds, and their names
UnitSeconds == <<1, 60, 3600, 86400>>
UnitNames == <<"seconds", "minutes", "hours", "days">>

\* the index of the largest unit that seconds (positive) holds at least once
PrimaryUnit(seconds) ==
    CHOOSE u \in 1..4 :
        /\ UnitSeconds[u] <= seconds
        /\ \A v \in 1..4 : UnitSeconds[v] <= seconds => v <= u

\* C14 as stated: a non-positive duration renders as "EXPIRED"; a positive
\* one renders its largest applicable unit, followed by the next smaller
\* unit exactly when the remainder left after the primary unit is non-zero
C14_Original ==
    shown.called =>
        LET s == shown.seconds
            r == shown.rendered
            u == PrimaryUnit(s)
        IN
        IF s <= 0 THEN r.text = "EXPIRED"
        ELSE /\ r.text = ""
             /\ r.punit = UnitNames[u]
             /\ r.primary = s \div UnitSeconds[u]
             /\ (r.sunit # "") <=> (s % UnitSeconds[u] # 0)
             /\ r.sunit # "" => u > 1 /\ r.sunit = UnitNames[u - 1]

\* C14 amended: a non-positive duration renders as "EXPIRED"; a positive
\* one renders its largest applicable unit, followed by the next smaller
\* unit exactly when the remainder holds at least one whole next smaller
\* unit, with the number of those whole units (a remainder below one such
\* unit is dropped)
C14_Rendering ==
    shown.called =>
        LET s == shown.seconds
            r == shown.rendered
            u == PrimaryUnit(s)
            whole == IF u = 1 THEN 0
                     ELSE (s % UnitSeconds[u]) \div UnitSeconds[u - 1]
        IN
        IF s <= 0 THEN r.text = "EXPIRED"
        ELSE /\ r.text = ""
             /\ r.punit = UnitNames[u]
             /\ r.primary = s \div UnitSeconds[u]
             /\ (r.sunit # "") <=> (whole # 0)
             /\ r.secondary = whole
             /\ r.sunit # "" => r.sunit = UnitNames[u - 1]

\* C14 witness: 90000 seconds rendered in its days/hours form
C14_Witness ==
    /\ shown.called /\ shown.seconds = 90000
    /\ shown.rendered = Rendered("", 1, "days", 1, "hours")

\* C15: under any interleaving of the steps of one invocation's
\* save_token_to_file and another's load_token_from_file, a step removes the
\* slot only when the content the slot holds at that moment is expired or
\* unparseable, or when the load could not read the slot at all
C15_RemovesOnlyStale ==
    [][ (slot.exists /\ ~slot'.exists) =>
            \/ is_token_expired(Strip(slot.content), now)
            \/ ~loc[Loader].obs.read ]_vars

\* C16: stop_app(session_id) calls the remote stop at most once and only
\* with session_id, and only when session_id is among the sessions that
\* list_running returned; it warns only when session_id is not among them,
\* and then calls no stop; when the handler has returned, it has stopped
\* exactly in the found case, warned exactly in the not-found case, and
\* has disconnected
C16_StopIffListed ==
    cmd.op = "stop_app" =>
        /\ Len(cmd.stops) <= 1
        /\ \A k \in 1..Len(cmd.stops) : cmd.stops[k] = cmd.session_id
        /\ cmd.stops # <<>> =>
               cmd.listed /\ cmd.session_id \in cmd.running /\ ~cmd.warned
        /\ cmd.warned =>
               cmd.listed /\ cmd.session_id \notin cmd.running
               /\ cmd.stops = <<>>
        /\ cmd.status = "returned" =>
               /\ cmd.api = "disconnected"
               /\ cmd.listed
               /\ cmd.session_id \in cmd.running
                      <=> cmd.stops = <<cmd.session_id>>
               /\ cmd.session_id \notin cmd.running <=> cmd.warned

\* C16 witness: the session id a start_app printed was given to the next
\* stop_app, which found it running, stopped it, disconnected and returned
C16_Witness ==
    /\ cmd.op = "stop_app" /\ cmd.status = "returned"
    /\ cmd.before # "" /\ cmd.session_id = cmd.before
    /\ cmd.stops = <<cmd.session_id>> /\ ~cmd.warned
    /\ cmd.api = "disconnected"
    /\ cmd.session_id \notin server

=============================================================================
